---- MODULE Spec2Model ----
(***************************************************************************)
(* A model of StableAudioPipeline.__call__ and the helpers it runs         *)
(* (check_inputs, encode_prompt_and_seconds, prepare_latents, the          *)
(* denoising loop and the post-processing), from                           *)
(* src/src/diffusers/pipelines/stable_audio/pipeline_stable_audio.py.      *)
(*                                                                         *)
(* Tensors are sequences over the batch axis.  A cross-attention tensor    *)
(* [B, S, H] and a mask [B, S] are sequences of rows, a row a sequence     *)
(* over the sequence axis of integers (the hidden axis is one scalar).     *)
(* A latent [B, C, L] is a sequence of integers, one per batch row; a      *)
(* waveform [B, C, T] is a sequence of rows, a row a sequence over time.   *)
(* Seconds are integers counting units of 1/TicksPerSecond seconds, so     *)
(* that the products with the sampling rate are exact.                     *)
(* An optional value is <<>> (None) or <<v>>.                              *)
(***************************************************************************)
EXTENDS Integers, Sequences, FiniteSets, TLC

\* ------------------------------------------------------------------ bounds
MaxSteps == 3        \* largest num_inference_steps
MaxWaveforms == 2    \* largest num_waveforms_per_prompt
MaxGenerators == 3   \* longest list of generators
MaxGuidance == 2     \* largest guidance_scale

\* ----------------------------------------------- configuration of the parts
sampling_rate == 2          \* self.vae.config.sampling_rate
hop_length == 3             \* self.vae.hop_length
sample_size == 4            \* self.transformer.config.sample_size
model_max_length == 2       \* self.tokenizer.model_max_length
init_noise_sigma == 2       \* self.scheduler.init_noise_sigma
min_audio_length_in_s == 2  \* check_inputs

TicksPerSecond == sampling_rate

\* ---------------------------------------------------------------- optionals
None == <<>>
Some(x) == <<x>>
IsNone(o) == Len(o) = 0
Val(o) == o[1]

\* ------------------------------------------------------------------ helpers
Min(a, b) == IF a <= b THEN a ELSE b
Max(a, b) == IF a >= b THEN a ELSE b

\* Python's int() of the quotient a / b of a float division (b > 0):
\* truncation toward zero.
PyInt(a, b) == IF a >= 0 THEN a \div b ELSE -((-a) \div b)

\* Rounding of a / b to the nearest integer, ties to even (b > 0).
RoundDiv(a, b) ==
    LET q == a \div b
        r == a % b
    IN  IF 2 * r < b THEN q
        ELSE IF 2 * r > b THEN q + 1
        ELSE IF q % 2 = 0 THEN q ELSE q + 1

RECURSIVE RowSum(_)
RowSum(row) == IF Len(row) = 0 THEN 0 ELSE Head(row) + RowSum(Tail(row))

RECURSIVE Flatten(_)
Flatten(x) == IF Len(x) = 0 THEN <<>> ELSE Head(x) \o Flatten(Tail(x))

\* ------------------------------------------------------------ tensor algebra
\* torch.cat(xs, dim=0)
Cat0(a, b) == a \o b

\* torch.cat([a, b], dim=1) is defined when the batch sizes agree
Cat1OK(a, b) == Len(a) = Len(b)
Cat1(a, b) == [r \in 1..Len(a) |-> a[r] \o b[r]]

\* x.repeat(1, n) / x.repeat(1, n, 1): n copies of every row along dim 1
RECURSIVE Copies(_, _)
Copies(row, n) == IF n = 0 THEN <<>> ELSE row \o Copies(row, n - 1)
Repeat1(x, n) == [r \in 1..Len(x) |-> Copies(x[r], n)]

\* x.view(rows, seq_len): the row-major elements cut into rows of seq_len
View(x, rows, seq_len) ==
    LET flat == Flatten(x)
    IN  [r \in 1..rows |-> SubSeq(flat, (r - 1) * seq_len + 1, r * seq_len)]

\* torch.zeros_like(x)
ZerosLike(x) == [r \in 1..Len(x) |-> [p \in 1..Len(x[r]) |-> 0]]

\* torch.ones((1, 1))
Ones11 == << <<1>> >>

\* x.shape[:2] of a [B, S, H] tensor
Shape2(x) == <<Len(x), IF Len(x) = 0 THEN 0 ELSE Len(x[1])>>

\* ------------------------------------------------------------------- inputs
\* A prompt is None, a str or a list of str; a text is its number of tokens.
NoPrompt == [kind |-> "none", texts |-> <<>>]
Str(k) == [kind |-> "str", texts |-> <<k>>]
List(ts) == [kind |-> "list", texts |-> ts]

\* len(prompt) of a list, 1 for a str (lines 281-286, 680-685)
IsStr(p) == p.kind = "str"
IsList(p) == p.kind = "list"
IsNonePrompt(p) == p.kind = "none"

\* A generator argument: None, one torch.Generator, or a list of them.
NoGenerator == [kind |-> "none", len |-> 0]
OneGenerator == [kind |-> "single", len |-> 0]
GeneratorList(n) == [kind |-> "list", len |-> n]

\* A pre-computed [B, S, H] tensor of the caller, B rows of S positions.
GivenTensor(B, S, v) == [r \in 1..B |-> [p \in 1..S |-> v + r + p]]

\* A pre-computed [B, S] mask of the caller, the last position padding.
GivenMask(B, S) == [r \in 1..B |-> [p \in 1..S |-> IF p < S THEN 1 ELSE 0]]

\* The default arguments of __call__ (lines 558-580); the numbers of steps
\* and the lengths are small.
DefaultArgs ==
    [prompt |-> Str(1),
     audio_length_in_s |-> None,
     audio_start_in_s |-> 0,
     num_inference_steps |-> 2,
     guidance_scale |-> MaxGuidance,
     negative_prompt |-> NoPrompt,
     num_waveforms_per_prompt |-> 1,
     generator |-> NoGenerator,
     latents |-> None,
     initial_audio_waveforms |-> None,
     cross_attention_hidden_states |-> None,
     negative_cross_attention_hidden_states |-> None,
     attention_mask |-> None,
     negative_attention_mask |-> None,
     return_dict |-> TRUE,
     callback |-> FALSE,
     callback_steps |-> Some(1),
     callback_steps_type |-> "int",
     output_type |-> "np"]

VARIABLES
    args,        \* the arguments of the call
    scheduler,   \* the scheduler's order and the length of its timestep list
    pc,          \* the position of the call
    error,       \* the exception the call ended with, "" when none
    calls,       \* the collaborators invoked so far, in order
    locals,      \* the local variables of __call__
    transformer_calls,  \* the arguments and the output of the transformer call
                        \* of every iteration that ended without exception
    step_calls,         \* the same of its scheduler.step call
    callback_calls,     \* the arguments of its callback call
    result       \* the value returned

vars == <<args, scheduler, pc, error, calls, locals,
          transformer_calls, step_calls, callback_calls, result>>

traces == <<transformer_calls, step_calls, callback_calls>>

\* ----------------------------------------------------- the calls considered
MaxOrder == 2        \* largest scheduler.order
MaxAudioTicks == 16  \* longest audio_length_in_s, in ticks
MaxStartTicks == 4   \* audio_start_in_s ranges over -MaxStartTicks..MaxStartTicks

Prompts == {NoPrompt, Str(1), Str(model_max_length + 1), List(<<1>>), List(<<1, 2>>)}
NegativePrompts ==
    {NoPrompt, Str(2), List(<<2>>), List(<<1, 1>>), List(<<1, 2, 1>>)}
Generators == {NoGenerator, OneGenerator} \cup {GeneratorList(n) : n \in 1..MaxGenerators}
GivenContexts == {None, Some(GivenTensor(1, model_max_length + 2, 0))}

\* The scheduler: its order and how far the length of its timestep list is
\* from num_inference_steps * order (2N - 1 timesteps for a second-order
\* scheduler that ends with a first-order step).
Schedulers == {[order |-> o, slack |-> s] : o \in 1..MaxOrder, s \in {-1, 0, 1}}
DefaultScheduler == [order |-> 1, slack |-> 0]

\* Calls that vary the prompts, the guidance and the generators.
ConditioningCalls ==
    {[DefaultArgs EXCEPT !.prompt = p, !.negative_prompt = np,
                         !.guidance_scale = g, !.num_waveforms_per_prompt = n,
                         !.generator = gen, !.cross_attention_hidden_states = c] :
        p \in Prompts, np \in NegativePrompts, g \in 0..MaxGuidance,
        n \in 1..MaxWaveforms, gen \in Generators, c \in GivenContexts}

\* Calls that vary the window and the form of the result.
WindowCalls ==
    {[DefaultArgs EXCEPT !.audio_length_in_s = l, !.audio_start_in_s = s,
                         !.output_type = o, !.return_dict = rd,
                         !.guidance_scale = g] :
        l \in {None} \cup {Some(t) : t \in 0..MaxAudioTicks},
        s \in -MaxStartTicks..MaxStartTicks,
        o \in {"np", "pt", "latent"}, rd \in BOOLEAN, g \in {1, MaxGuidance}}

\* Calls that vary the loop: steps, callback, guidance, initial latents.
LoopCalls ==
    {[DefaultArgs EXCEPT !.num_inference_steps = N, !.callback = cb,
                         !.callback_steps = cs, !.guidance_scale = g,
                         !.num_waveforms_per_prompt = n, !.output_type = o,
                         !.latents = lat, !.initial_audio_waveforms = w] :
        N \in 1..MaxSteps, cb \in BOOLEAN,
        cs \in {None} \cup {Some(k) : k \in 0..2},
        g \in 0..MaxGuidance, n \in 1..MaxWaveforms, o \in {"np", "latent"},
        lat \in {None, Some("given")}, w \in {None, Some("given")}}

\* Calls that vary what check_inputs looks at: the sources of the two
\* contexts, the shapes of the pre-computed tensors, callback_steps.
ValidationCalls ==
    {[DefaultArgs EXCEPT !.prompt = p, !.negative_prompt = np,
                         !.cross_attention_hidden_states = c,
                         !.negative_cross_attention_hidden_states = nc,
                         !.attention_mask = m, !.callback_steps = cs,
                         !.callback_steps_type = ty, !.guidance_scale = g] :
        p \in {NoPrompt, Str(1)}, np \in {NoPrompt, Str(2)},
        c \in GivenContexts \cup {Some(GivenTensor(MaxWaveforms, model_max_length, 0))},
        nc \in {None, Some(GivenTensor(1, model_max_length + 2, 3)),
                Some(GivenTensor(1, model_max_length, 3)),
                Some(GivenTensor(MaxWaveforms, model_max_length + 2, 3))},
        m \in {None, Some(GivenMask(1, model_max_length + 2)),
               Some(GivenMask(1, model_max_length)),
               Some(GivenMask(MaxWaveforms, model_max_length + 2))},
        cs \in {None, Some(0), Some(1)}, ty \in {"int", "float"},
        g \in {1, MaxGuidance}}

NoLocals ==
    [audio_length_in_s |-> None, waveform_start |-> None, waveform_end |-> None,
     batch_size |-> None, do_classifier_free_guidance |-> None,
     cross_attention_hidden_states |-> None, attention_mask |-> None,
     global_hidden_states |-> None, timesteps |-> None, latents |-> None,
     rotary_length |-> None, i |-> 0, progress |-> 0]

Init ==
    /\ \/ args \in ConditioningCalls /\ scheduler = DefaultScheduler
       \/ args \in WindowCalls /\ scheduler = DefaultScheduler
       \/ args \in ValidationCalls /\ scheduler = DefaultScheduler
       \/ args \in LoopCalls /\ scheduler \in Schedulers
    /\ args.num_inference_steps * scheduler.order + scheduler.slack >= 1
    /\ pc = "convert_length"
    /\ error = ""
    /\ calls = <<>>
    /\ locals = NoLocals
    /\ transformer_calls = <<>>
    /\ step_calls = <<>>
    /\ callback_calls = <<>>
    /\ result = None

\* The call ends with exception e.
Raise(e) ==
    /\ pc' = "error"
    /\ error' = e

\* --------------------------------------------- 0. seconds to latent length
\* self.transformer.config.sample_size * downsample_ratio / sampling_rate
max_audio_length_in_s == (sample_size * hop_length * TicksPerSecond) \div sampling_rate

\* A variant of WaveformFrame that rounds to the nearest frame.
WaveformFrame_Rounds(seconds) == RoundDiv(seconds * sampling_rate, hop_length * TicksPerSecond)

\* int(seconds * sampling_rate / downsample_ratio)
WaveformFrame(seconds) == PyInt(seconds * sampling_rate, hop_length * TicksPerSecond)

\* audio_length_in_s - audio_start_in_s > max_audio_length_in_s
WindowTooLong(length, start) == length - start > max_audio_length_in_s

ConvertLength ==
    /\ pc = "convert_length"
    /\ LET length == IF IsNone(args.audio_length_in_s) THEN max_audio_length_in_s
                      ELSE Val(args.audio_length_in_s)
       IN  IF WindowTooLong(length, args.audio_start_in_s)
           THEN /\ Raise("ValueError")
                /\ locals' = [locals EXCEPT !.audio_length_in_s = Some(length)]
           ELSE /\ pc' = "check_inputs"
                /\ error' = error
                /\ locals' = [locals EXCEPT
                       !.audio_length_in_s = Some(length),
                       !.waveform_start = Some(WaveformFrame(args.audio_start_in_s)),
                       !.waveform_end = Some(WaveformFrame(length))]
    /\ UNCHANGED <<args, scheduler, calls, traces, result>>

\* ------------------------------------------------------- 1. check_inputs
\* A variant of AudioLengthTooShort that only asks for a positive length.
AudioLengthTooShort_Positive(length) == length <= 0

\* audio_length_in_s < min_audio_length_in_s
AudioLengthTooShort(length) == length < min_audio_length_in_s * TicksPerSecond

\* callback_steps is None, or is not a positive integer
BadCallbackSteps(cs, type) == IsNone(cs) \/ type # "int" \/ Val(cs) <= 0

\* both, or neither, of prompt and cross_attention_hidden_states
BadPromptSource(prompt, cahs) ==
    \/ ~IsNonePrompt(prompt) /\ ~IsNone(cahs)
    \/ IsNonePrompt(prompt) /\ IsNone(cahs)

\* A variant of BadNegativeSource that accepts both.
BadNegativeSource_Never(negative_prompt, ncahs) == FALSE

\* both negative_prompt and negative_cross_attention_hidden_states
BadNegativeSource(negative_prompt, ncahs) ==
    ~IsNonePrompt(negative_prompt) /\ ~IsNone(ncahs)

\* the shapes of the pre-computed tensors disagree
BadShapes(cahs, ncahs, mask) ==
    /\ ~IsNone(cahs)
    /\ ~IsNone(ncahs)
    /\ \/ Shape2(Val(cahs)) # Shape2(Val(ncahs))
       \/ ~IsNone(mask) /\ Shape2(Val(mask)) # Shape2(Val(cahs))

\* check_inputs raises ValueError
CheckInputsRaises(a, length) ==
    \/ AudioLengthTooShort(length)
    \/ BadCallbackSteps(a.callback_steps, a.callback_steps_type)
    \/ BadPromptSource(a.prompt, a.cross_attention_hidden_states)
    \/ BadNegativeSource(a.negative_prompt, a.negative_cross_attention_hidden_states)
    \/ BadShapes(a.cross_attention_hidden_states,
                 a.negative_cross_attention_hidden_states, a.attention_mask)

\* 2. batch_size (lines 680-685)
BatchSize(prompt, cahs) ==
    IF IsStr(prompt) THEN 1
    ELSE IF IsList(prompt) THEN Len(prompt.texts)
    ELSE Len(Val(cahs))

\* A variant of DoClassifierFreeGuidance that guides at guidance_scale = 1.0.
DoClassifierFreeGuidance_Inclusive(guidance_scale) == guidance_scale >= 1

\* do_classifier_free_guidance = guidance_scale > 1.0
DoClassifierFreeGuidance(guidance_scale) == guidance_scale > 1

CheckInputs ==
    /\ pc = "check_inputs"
    /\ IF CheckInputsRaises(args, Val(locals.audio_length_in_s))
       THEN /\ Raise("ValueError")
            /\ UNCHANGED locals
       ELSE /\ pc' = "encode_prompt"
            /\ error' = error
            /\ locals' = [locals EXCEPT
                   !.batch_size =
                       Some(BatchSize(args.prompt, args.cross_attention_hidden_states)),
                   !.do_classifier_free_guidance =
                       Some(DoClassifierFreeGuidance(args.guidance_scale))]
    /\ UNCHANGED <<args, scheduler, calls, traces, result>>

\* ------------------------------------------- the parts the pipeline calls
\* The tokenizer with padding="max_length", truncation=True: a text of k
\* tokens gives model_max_length ids and a mask that marks the padding.
TokenizerMask(texts) ==
    [r \in 1..Len(texts) |-> [p \in 1..model_max_length |-> IF p <= texts[r] THEN 1 ELSE 0]]
TokenizerIds(texts) ==
    [r \in 1..Len(texts) |->
        [p \in 1..model_max_length |-> IF p <= texts[r] THEN 10 * texts[r] + p ELSE 0]]

\* The text encoder: a hidden state for every position, padding included.
TextEncoder(input_ids, mask) ==
    [r \in 1..Len(input_ids) |->
        [p \in 1..Len(input_ids[r]) |-> input_ids[r][p] + mask[r][p] + 1]]

\* The projection model: the projected text states, the mask it was given,
\* and one embedding for every entry of start_seconds and of end_seconds.
ProjectionModel(text_hidden_states, attention_mask, start_seconds, end_seconds) ==
    [text_hidden_states |->
        [r \in 1..Len(text_hidden_states) |->
            [p \in 1..Len(text_hidden_states[r]) |-> 2 * text_hidden_states[r][p]]],
     attention_mask |-> attention_mask,
     seconds_start_hidden_states |->
        [r \in 1..Len(start_seconds) |-> <<100 + start_seconds[r]>>],
     seconds_end_hidden_states |->
        [r \in 1..Len(end_seconds) |-> <<200 + end_seconds[r]>>]]

\* ------------------------------------------ 3. encode_prompt_and_seconds
\* x * mask.unsqueeze(-1)
MulMask(x, mask) == [r \in 1..Len(x) |-> [p \in 1..Len(x[r]) |-> x[r][p] * mask[r][p]]]

\* torch.cat([a, b], dim=2) of two [B, 1, H] tensors: a position holds the
\* channels of a followed by those of b
Cat2(a, b) == [r \in 1..Len(a) |-> [p \in 1..Len(a[r]) |-> <<a[r][p], b[r][p]>>]]

\* torch.cat(xs, dim=0) is defined when the sequence lengths agree
Cat0OK(a, b) == Shape2(a)[2] = Shape2(b)[2]

\* torch.where(mask.unsqueeze(2), x, 0.) broadcasts mask [Bm, Sm, 1] against
\* x [Bx, Sx, H]: a dimension must agree or be 1
BroadcastOK(mask, x) ==
    /\ Len(mask) = Len(x) \/ Len(mask) = 1 \/ Len(x) = 1
    /\ Shape2(mask)[2] = Shape2(x)[2] \/ Shape2(mask)[2] = 1 \/ Shape2(x)[2] = 1
Where(mask, x) ==
    LET B == Max(Len(mask), Len(x))
        S == Max(Shape2(mask)[2], Shape2(x)[2])
        At(t, r, p) == t[IF Len(t) = 1 THEN 1 ELSE r][IF Len(t[1]) = 1 THEN 1 ELSE p]
    IN  [r \in 1..B |-> [p \in 1..S |-> IF At(mask, r, p) # 0 THEN At(x, r, p) ELSE 0]]

\* x.repeat(1, n, 1).view(rows, seq_len, -1)
Tile(x, n, rows, seq_len) == View(Repeat1(x, n), rows, seq_len)

\* The text is truncated: the untruncated ids are at least as long as the
\* truncated ones and differ from them (lines 303-305)
Truncated(texts) == \E r \in 1..Len(texts) : texts[r] > model_max_length

\* The outcome of a stage of encode_prompt_and_seconds
Encoded(cs, cahs, mask, glob) ==
    [error |-> "", calls |-> cs, cross_attention_hidden_states |-> cahs,
     attention_mask |-> mask, global_hidden_states |-> glob]
EncodeFails(e, cs) ==
    [error |-> e, calls |-> cs, cross_attention_hidden_states |-> <<>>,
     attention_mask |-> <<>>, global_hidden_states |-> <<>>]

\* Lines 291-340: the prompt is tokenized, encoded and projected, and the
\* two temporal embeddings are appended.
EncodeText(a, audio_end_in_s) ==
    LET texts == a.prompt.texts
        cs == <<"tokenizer", "tokenizer">>
              \o (IF Truncated(texts) THEN <<"logger.warning">> ELSE <<>>)
              \o <<"text_encoder", "projection_model">>
        text_input_ids == TokenizerIds(texts)
        attention_mask == TokenizerMask(texts)
        projection_output ==
            ProjectionModel(TextEncoder(text_input_ids, attention_mask), attention_mask,
                            <<a.audio_start_in_s>>, <<audio_end_in_s>>)
        prompt_embeds == MulMask(projection_output.text_hidden_states, attention_mask)
        seconds_start == projection_output.seconds_start_hidden_states
        seconds_end == projection_output.seconds_end_hidden_states
    IN  IF ~Cat1OK(prompt_embeds, seconds_start) \/ ~Cat1OK(prompt_embeds, seconds_end)
           \/ ~Cat1OK(projection_output.attention_mask, Ones11)
        THEN EncodeFails("RuntimeError", cs)
        ELSE Encoded(cs,
                     Cat1(Cat1(prompt_embeds, seconds_start), seconds_end),
                     Cat1(Cat1(projection_output.attention_mask, Ones11), Ones11),
                     Cat2(seconds_start, seconds_end))

\* Lines 291-348: with a pre-computed context the text branch is skipped and
\* global_hidden_states is read at line 343 without having been assigned.
EncodePositive(a, audio_end_in_s) ==
    IF IsNone(a.cross_attention_hidden_states)
    THEN EncodeText(a, audio_end_in_s)
    ELSE EncodeFails("UnboundLocalError", <<>>)

\* Lines 350-365: every tensor is tiled num_waveforms_per_prompt times; the
\* global states and the mask are doubled for guidance.
TileAndDouble(e, n, guided) ==
    LET bs_embed == Len(e.cross_attention_hidden_states)
        seq_len == Shape2(e.cross_attention_hidden_states)[2]
        cahs == Tile(e.cross_attention_hidden_states, n, bs_embed * n, seq_len)
        glob == Tile(e.global_hidden_states, n, bs_embed * n,
                     Shape2(e.global_hidden_states)[2])
        mask == Tile(e.attention_mask, n, bs_embed * n, seq_len)
    IN  Encoded(e.calls, cahs,
                IF guided THEN Cat0(mask, mask) ELSE mask,
                IF guided THEN Cat0(glob, glob) ELSE glob)

\* type(prompt) is not type(negative_prompt)
TypeMismatch(prompt, negative_prompt) == prompt.kind # negative_prompt.kind

\* batch_size != len(negative_prompt), for a list
LengthMismatch(batch_size, negative_prompt) ==
    IsList(negative_prompt) /\ batch_size # Len(negative_prompt.texts)

\* Lines 369-379: no negative prompt: the unconditional context is the given
\* one or zeros, masked by the given negative mask, and comes first.
EncodeNoNegative(a, e) ==
    LET given == IF IsNone(a.negative_cross_attention_hidden_states)
                 THEN ZerosLike(e.cross_attention_hidden_states)
                 ELSE Val(a.negative_cross_attention_hidden_states)
        masked == IF IsNone(a.negative_attention_mask) THEN given
                  ELSE Where(Val(a.negative_attention_mask), given)
    IN  IF ~IsNone(a.negative_attention_mask)
           /\ ~BroadcastOK(Val(a.negative_attention_mask), given)
        THEN EncodeFails("RuntimeError", e.calls)
        ELSE IF ~Cat0OK(masked, e.cross_attention_hidden_states)
        THEN EncodeFails("RuntimeError", e.calls)
        ELSE Encoded(e.calls, Cat0(masked, e.cross_attention_hidden_states),
                     e.attention_mask, e.global_hidden_states)

\* The attention mask handed to the projection model for the negative prompt
\* (line 421)
NegativeProjectionMask(attention_mask, negative_attention_mask) == attention_mask

\* Lines 381-446: the negative prompt is checked, tokenized, encoded and
\* projected, the temporal embeddings of the prompt are appended, and the
\* result comes first.
EncodeNegative(a, e, batch_size, audio_end_in_s, seconds) ==
    LET n == a.num_waveforms_per_prompt
        uncond_tokens == a.negative_prompt.texts
        cs == e.calls \o <<"tokenizer", "text_encoder", "projection_model">>
        uncond_input_ids == TokenizerIds(uncond_tokens)
        uncond_mask == TokenizerMask(uncond_tokens)
        negative_projection_output ==
            ProjectionModel(TextEncoder(uncond_input_ids, uncond_mask),
                            NegativeProjectionMask(e.attention_mask, uncond_mask),
                            <<a.audio_start_in_s>>, <<audio_end_in_s>>)
        negative_attention_mask == negative_projection_output.attention_mask
        text == negative_projection_output.text_hidden_states
        negative_prompt_embeds == Where(negative_attention_mask, text)
        negative == Cat1(Cat1(negative_prompt_embeds, seconds.start), seconds.end)
        seq_len == Shape2(negative)[2]
        tiled == Tile(negative, n, batch_size * n, seq_len)
    IN  IF TypeMismatch(a.prompt, a.negative_prompt)
        THEN EncodeFails("TypeError", e.calls)
        ELSE IF ~IsStr(a.negative_prompt) /\ LengthMismatch(batch_size, a.negative_prompt)
        THEN EncodeFails("ValueError", e.calls)
        ELSE IF ~BroadcastOK(negative_attention_mask, text)
        THEN EncodeFails("RuntimeError", cs)
        ELSE IF ~Cat1OK(negative_prompt_embeds, seconds.start)
                \/ ~Cat1OK(negative_prompt_embeds, seconds.end)
        THEN EncodeFails("RuntimeError", cs)
        ELSE IF Len(Flatten(Repeat1(negative, n))) # batch_size * n * seq_len
                \/ ~Cat0OK(tiled, e.cross_attention_hidden_states)
        THEN EncodeFails("RuntimeError", cs)
        ELSE Encoded(cs, Cat0(tiled, e.cross_attention_hidden_states),
                     e.attention_mask, e.global_hidden_states)

\* The temporal embeddings the text branch left in seconds_start_hidden_states
\* and seconds_end_hidden_states
SecondsStates(a, audio_end_in_s) ==
    LET o == ProjectionModel(<<>>, <<>>, <<a.audio_start_in_s>>, <<audio_end_in_s>>)
    IN  [start |-> o.seconds_start_hidden_states, end |-> o.seconds_end_hidden_states]

\* encode_prompt_and_seconds (lines 199-448)
EncodePromptAndSeconds(a, batch_size, audio_end_in_s, guided) ==
    LET positive == EncodePositive(a, audio_end_in_s)
        tiled == TileAndDouble(positive, a.num_waveforms_per_prompt, guided)
    IN  IF positive.error # "" THEN positive
        ELSE IF guided /\ IsNonePrompt(a.negative_prompt)
        THEN EncodeNoNegative(a, tiled)
        ELSE IF guided
        THEN EncodeNegative(a, tiled, batch_size, audio_end_in_s,
                            SecondsStates(a, audio_end_in_s))
        ELSE tiled

EncodePrompt ==
    /\ pc = "encode_prompt"
    /\ LET e == EncodePromptAndSeconds(args, Val(locals.batch_size),
                                       Val(locals.audio_length_in_s),
                                       Val(locals.do_classifier_free_guidance))
       IN  /\ calls' = calls \o e.calls
           /\ IF e.error # ""
              THEN /\ Raise(e.error)
                   /\ UNCHANGED locals
              ELSE /\ pc' = "set_timesteps"
                   /\ error' = error
                   /\ locals' = [locals EXCEPT
                          !.cross_attention_hidden_states =
                              Some(e.cross_attention_hidden_states),
                          !.attention_mask = Some(e.attention_mask),
                          !.global_hidden_states = Some(e.global_hidden_states)]
    /\ UNCHANGED <<args, scheduler, traces, result>>

\* ------------------------------------------------------- 4. the timesteps
\* scheduler.set_timesteps(num_inference_steps): the timestep list, in
\* descending order
SetTimestepsResult(num_inference_steps, sch) ==
    LET n == num_inference_steps * sch.order + sch.slack
    IN  [k \in 1..n |-> n - k + 1]

SetTimesteps ==
    /\ pc = "set_timesteps"
    /\ calls' = Append(calls, "scheduler.set_timesteps")
    /\ locals' = [locals EXCEPT
           !.timesteps = Some(SetTimestepsResult(args.num_inference_steps, scheduler))]
    /\ pc' = "prepare_latents"
    /\ UNCHANGED <<args, scheduler, error, traces, result>>

\* ------------------------------------------------------ 5. prepare_latents
\* randn_tensor(shape, generator): the noise of a deterministic generator
RandnTensor(batch_size) == [r \in 1..batch_size |-> r]

\* The latents the caller passes, of the shape asked for
GivenLatents(batch_size) == [r \in 1..batch_size |-> 5 + 2 * r]

\* The initial waveforms the caller passes, one per prompt
GivenWaveforms(batch_size) ==
    [r \in 1..batch_size |-> [t \in 1..hop_length |-> 10 * r + t]]

\* self.vae.encode(waveforms).latents.sample(generator)
VaeEncode(waveforms) == [r \in 1..Len(waveforms) |-> RowSum(waveforms[r])]

\* latents * self.scheduler.init_noise_sigma
ScaleNoise(latents) == [r \in 1..Len(latents) |-> latents[r] * init_noise_sigma]

\* isinstance(generator, list) and len(generator) != batch_size
BadGenerators(generator, batch_size) ==
    generator.kind = "list" /\ generator.len # batch_size

PrepareLatentsFails(e, cs) == [error |-> e, calls |-> cs, latents |-> <<>>]

\* prepare_latents (lines 533-554), called with the effective batch size.
\* With initial waveforms, line 552 calls torch.repeat after the encoding;
\* the torch module has no function repeat, so the line ends in
\* AttributeError whatever num_waveforms_per_prompt is.
PrepareLatentsResult(batch_size, generator, latents, initial_audio_waveforms, n) ==
    LET noise == IF IsNone(latents) THEN RandnTensor(batch_size)
                 ELSE GivenLatents(batch_size)
        scaled == ScaleNoise(noise)
    IN  IF BadGenerators(generator, batch_size)
        THEN PrepareLatentsFails("ValueError", <<>>)
        ELSE IF IsNone(initial_audio_waveforms)
        THEN [error |-> "", calls |-> <<>>, latents |-> scaled]
        ELSE PrepareLatentsFails("AttributeError", <<"vae.encode">>)

PrepareLatents ==
    /\ pc = "prepare_latents"
    /\ LET r == PrepareLatentsResult(
                    Val(locals.batch_size) * args.num_waveforms_per_prompt,
                    args.generator, args.latents, args.initial_audio_waveforms,
                    args.num_waveforms_per_prompt)
       IN  /\ calls' = calls \o r.calls
           /\ IF r.error # ""
              THEN /\ Raise(r.error)
                   /\ UNCHANGED locals
              ELSE /\ pc' = "prepare_rotary"
                   /\ error' = error
                   /\ locals' = [locals EXCEPT !.latents = Some(r.latents)]
    /\ UNCHANGED <<args, scheduler, traces, result>>

\* ------------------------------------------- 6, 7. the rotary embedding
\* A variant of RotaryLength that leaves out the global states.
RotaryLength_LatentOnly(global_hidden_states) == sample_size

\* latents.shape[2] + global_hidden_states.shape[1]
RotaryLength(global_hidden_states) == sample_size + Shape2(global_hidden_states)[2]

PrepareRotary ==
    /\ pc = "prepare_rotary"
    /\ locals' = [locals EXCEPT
           !.rotary_length = Some(RotaryLength(Val(locals.global_hidden_states)))]
    /\ pc' = "denoise"
    /\ UNCHANGED <<args, scheduler, error, calls, traces, result>>

\* -------------------------------------------------- 8. the denoising loop
\* scheduler.scale_model_input(sample, t)
ScaleModelInput(sample, t) == [r \in 1..Len(sample) |-> sample[r] + t]

\* The transformer: a noise residual for every row of its input, from the
\* row, the timestep and the same row of the two contexts.
Transformer(input, t, encoder_hidden_states, global_hidden_states) ==
    [r \in 1..Len(input) |->
        input[r] + 3 * t + 2 * RowSum(encoder_hidden_states[r])
        + global_hidden_states[r][1][1]]

\* The batch sizes the transformer is given agree
TransformerOK(input, encoder_hidden_states, global_hidden_states) ==
    /\ Len(input) = Len(encoder_hidden_states)
    /\ Len(input) = Len(global_hidden_states)

\* scheduler.step(model_output, t, sample).prev_sample
SchedulerStep(model_output, t, sample) ==
    [r \in 1..Len(sample) |-> sample[r] - model_output[r] + t]

\* torch.cat([latents] * 2) if do_classifier_free_guidance else latents
LatentModelInput(latents, guided) == IF guided THEN Cat0(latents, latents) ELSE latents

\* noise_pred.chunk(2)
Chunk2(x) ==
    LET h == (Len(x) + 1) \div 2
    IN  <<SubSeq(x, 1, h), SubSeq(x, h + 1, Len(x))>>

\* noise_pred_uncond + guidance_scale * (noise_pred_text - noise_pred_uncond)
Guide(noise_pred_uncond, noise_pred_text, guidance_scale) ==
    [r \in 1..Len(noise_pred_uncond) |->
        noise_pred_uncond[r] + guidance_scale * (noise_pred_text[r] - noise_pred_uncond[r])]

\* A variant of PerformGuidance that takes the halves in the other order.
PerformGuidance_Swapped(noise_pred, guided, guidance_scale) ==
    IF guided
    THEN Guide(Chunk2(noise_pred)[2], Chunk2(noise_pred)[1], guidance_scale)
    ELSE noise_pred

\* Lines 753-756
PerformGuidance(noise_pred, guided, guidance_scale) ==
    IF guided
    THEN Guide(Chunk2(noise_pred)[1], Chunk2(noise_pred)[2], guidance_scale)
    ELSE noise_pred

\* len(timesteps) - num_inference_steps * self.scheduler.order
NumWarmupSteps(num_timesteps, num_inference_steps, order) ==
    num_timesteps - num_inference_steps * order

\* i == len(timesteps) - 1 or ((i + 1) > num_warmup_steps and
\* (i + 1) % self.scheduler.order == 0)
UpdatesProgress(i, num_timesteps, num_warmup_steps, order) ==
    \/ i = num_timesteps - 1
    \/ (i + 1) > num_warmup_steps /\ (i + 1) % order = 0

\* callback is not None and i % callback_steps == 0
CallsCallback(callback, i, callback_steps) == callback /\ i % callback_steps = 0

\* A variant of StepIdx that counts the steps from one.
StepIdx_FromOne(i, order) == (i + 1) \div order

\* i // getattr(self.scheduler, "order", 1)
StepIdx(i, order) == i \div order

\* A variant of Enumerate that walks the timestep list from its end.
Enumerate_Reversed(timesteps, i) == timesteps[Len(timesteps) - i]

\* for i, t in enumerate(timesteps): the timestep of iteration i
Enumerate(timesteps, i) == timesteps[i + 1]

\* The parts of an iteration that may raise, in the order they are invoked,
\* and the exception each ends the call with; the callback is one of them
\* in an iteration that calls it.
LoopCollaborators(called) ==
    <<"scheduler.scale_model_input", "transformer", "scheduler.step">>
    \o (IF called THEN <<"callback">> ELSE <<>>)
LoopError(c) ==
    IF c = "transformer" THEN "TransformerError"
    ELSE IF c = "callback" THEN "CallbackError"
    ELSE "SchedulerError"

\* A variant of AfterIteration that goes on after an exception.
AfterIteration_Swallows(raised, i, num_timesteps) ==
    IF i + 1 = num_timesteps THEN "post_process" ELSE "denoise"

\* Where the call goes after iteration i: nothing in the loop or around it
\* catches an exception, and the loop ends after the last timestep.
AfterIteration(raised, i, num_timesteps) ==
    IF raised THEN "error"
    ELSE IF i + 1 = num_timesteps THEN "post_process" ELSE "denoise"

DenoiseStep ==
    /\ pc = "denoise"
    /\ LET i == locals.i
           timesteps == Val(locals.timesteps)
           t == Enumerate(timesteps, i)
           guided == Val(locals.do_classifier_free_guidance)
           latents == Val(locals.latents)
           cahs == Val(locals.cross_attention_hidden_states)
           glob == Val(locals.global_hidden_states)
           latent_model_input == ScaleModelInput(LatentModelInput(latents, guided), t)
           noise_pred == Transformer(latent_model_input, t, cahs, glob)
           guided_pred == PerformGuidance(noise_pred, guided, args.guidance_scale)
           prev_sample == SchedulerStep(guided_pred, t, latents)
           updates == UpdatesProgress(i, Len(timesteps),
                          NumWarmupSteps(Len(timesteps), args.num_inference_steps,
                                         scheduler.order),
                          scheduler.order)
           called == updates /\ CallsCallback(args.callback, i, Val(args.callback_steps))
       IN  IF ~TransformerOK(latent_model_input, cahs, glob)
           THEN /\ Raise("RuntimeError")
                /\ calls' = calls \o <<"scheduler.scale_model_input", "transformer">>
                /\ UNCHANGED <<locals, traces>>
           ELSE
           \/ \E k \in 1..Len(LoopCollaborators(called)) :
                /\ pc' = AfterIteration(TRUE, i, Len(timesteps))
                /\ error' = LoopError(LoopCollaborators(called)[k])
                /\ calls' = calls \o SubSeq(LoopCollaborators(called), 1, k)
                /\ UNCHANGED <<locals, traces>>
           \/   /\ calls' = calls
                       \o <<"scheduler.scale_model_input", "transformer", "scheduler.step">>
                       \o (IF called THEN <<"callback">> ELSE <<>>)
                /\ transformer_calls' = Append(transformer_calls,
                       [hidden_states |-> latent_model_input, timestep |-> t,
                        encoder_hidden_states |-> cahs, global_hidden_states |-> glob,
                        rotary_length |-> Val(locals.rotary_length),
                        output |-> noise_pred])
                /\ step_calls' = Append(step_calls,
                       [model_output |-> guided_pred, timestep |-> t,
                        sample |-> latents, prev_sample |-> prev_sample])
                /\ callback_calls' =
                       IF called
                       THEN Append(callback_calls,
                                [step_idx |-> StepIdx(i, scheduler.order), timestep |-> t,
                                 latents |-> prev_sample])
                       ELSE callback_calls
                /\ locals' = [locals EXCEPT
                       !.latents = Some(prev_sample),
                       !.i = i + 1,
                       !.progress = IF updates THEN @ + 1 ELSE @]
                /\ pc' = AfterIteration(FALSE, i, Len(timesteps))
                /\ error' = error
    /\ UNCHANGED <<args, scheduler, result>>

\* ---------------------------------------------------- 9. post-processing
\* self.vae.decode(latents).sample: sample_size * hop_length samples a row
VaeDecode(latents) ==
    [r \in 1..Len(latents) |-> [t \in 1..(sample_size * hop_length) |-> 100 * latents[r] + t]]

\* A bound of a Python slice of a sequence of n elements
SliceBound(k, n) == IF k < 0 THEN Max(k + n, 0) ELSE Min(k, n)

\* row[lo:hi]
PySlice(row, lo, hi) ==
    SubSeq(row, SliceBound(lo, Len(row)) + 1, SliceBound(hi, Len(row)))

\* audio[:, :, waveform_start*downsample_ratio:waveform_end*downsample_ratio]
SliceAudio(audio, waveform_start, waveform_end) ==
    [r \in 1..Len(audio) |->
        PySlice(audio[r], waveform_start * hop_length, waveform_end * hop_length)]

\* A variant of Decodes that decodes whatever the output type.
Decodes_Always(output_type) == TRUE

\* not output_type == "latent"
Decodes(output_type) == ~(output_type = "latent")

\* Lines 770-785: what the call returns, and whether vae.decode ran
Finalize(latents, output_type, return_dict, waveform_start, waveform_end) ==
    IF Decodes(output_type)
    THEN [decoded |-> TRUE,
          kind |-> IF ~return_dict THEN "tuple" ELSE "AudioPipelineOutput",
          type |-> IF output_type = "np" THEN "numpy.ndarray" ELSE "torch.Tensor",
          audios |-> SliceAudio(VaeDecode(latents), waveform_start, waveform_end)]
    ELSE [decoded |-> FALSE,
          kind |-> "AudioPipelineOutput",
          type |-> "torch.Tensor",
          audios |-> latents]

PostProcess ==
    /\ pc = "post_process"
    /\ LET r == Finalize(Val(locals.latents), args.output_type, args.return_dict,
                         Val(locals.waveform_start), Val(locals.waveform_end))
       IN  /\ calls' = IF r.decoded THEN Append(calls, "vae.decode") ELSE calls
           /\ result' = Some([kind |-> r.kind, type |-> r.type, audios |-> r.audios])
    /\ pc' = "done"
    /\ UNCHANGED <<args, scheduler, error, locals, traces>>

Next ==
    \/ ConvertLength
    \/ CheckInputs
    \/ EncodePrompt
    \/ SetTimesteps
    \/ PrepareLatents
    \/ PrepareRotary
    \/ DenoiseStep
    \/ PostProcess

Spec == Init /\ [][Next]_vars

\* ================================================================= claims
\* TypeError and ValueError are the usage errors.
UsageError == error \in {"TypeError", "ValueError"}

\* guidance_scale > 1.0, read from the arguments
GuidanceEnabled == args.guidance_scale > 1

\* batch_size * num_waveforms_per_prompt of a call with a text prompt
EffectiveBatch ==
    (IF args.prompt.kind = "list" THEN Len(args.prompt.texts) ELSE 1)
    * args.num_waveforms_per_prompt

\* The collaborator named c has been invoked.
Invoked(c) == \E k \in 1..Len(calls) : calls[k] = c

\* The number of invocations of the collaborator named c.
Invocations(c) == Cardinality({k \in 1..Len(calls) : calls[k] = c})

\* The negative prompt and the prompt are texts of different container type,
\* or lists of different length.
NegativePromptMismatch ==
    /\ args.prompt.kind # "none"
    /\ args.negative_prompt.kind # "none"
    /\ \/ args.prompt.kind # args.negative_prompt.kind
       \/ /\ args.prompt.kind = "list"
          /\ Len(args.prompt.texts) # Len(args.negative_prompt.texts)

\* C1: with guidance enabled and a negative prompt whose container type or
\* list length differs from the prompt's, no collaborator is ever invoked and
\* the call ends with a usage error.
C1_NegativeMismatchFailsFast ==
    (GuidanceEnabled /\ NegativePromptMismatch)
        => /\ calls = <<>>
           /\ pc # "done"
           /\ pc = "error" => UsageError

\* The generator is a list whose length differs from the effective batch size.
GeneratorMismatch ==
    /\ args.generator.kind = "list"
    /\ args.prompt.kind # "none"
    /\ args.generator.len # EffectiveBatch

\* C2: with a list of generators whose length differs from batch_size *
\* num_waveforms_per_prompt, no collaborator is ever invoked and the call ends
\* with a usage error.
C2_GeneratorMismatchFailsFast ==
    GeneratorMismatch
        => /\ calls = <<>>
           /\ pc # "done"
           /\ pc = "error" => UsageError

\* audio_length_in_s is given and is below 2.0 seconds
ShortAudioLength ==
    /\ ~IsNone(args.audio_length_in_s)
    /\ Val(args.audio_length_in_s) < 2 * TicksPerSecond

\* C3: for every audio_length_in_s below 2.0 seconds the call ends with a
\* usage error and no collaborator is invoked.
C3_ShortAudioLengthRejected ==
    ShortAudioLength
        => /\ calls = <<>>
           /\ pc \in {"convert_length", "check_inputs", "error"}
           /\ pc = "error" => error = "ValueError"

\* C3's case: check_inputs has rejected a length of one second.
C3_Witness ==
    /\ args.audio_length_in_s = Some(TicksPerSecond)
    /\ ~IsNone(locals.waveform_end)
    /\ pc = "error"
    /\ error = "ValueError"

\* The latent after every timestep of a run without guidance: the scheduler
\* steps on the transformer's output for the undoubled latent and the
\* conditional context alone.
RECURSIVE UnguidedRun(_, _, _, _)
UnguidedRun(latents, timesteps, cahs, glob) ==
    IF Len(timesteps) = 0 THEN latents
    ELSE LET t == Head(timesteps)
         IN  UnguidedRun(
                 SchedulerStep(Transformer(ScaleModelInput(latents, t), t, cahs, glob),
                               t, latents),
                 Tail(timesteps), cahs, glob)

\* The conditioning of the call with guidance forced off
UnguidedConditioning ==
    EncodePromptAndSeconds(args, Val(locals.batch_size),
                           Val(locals.audio_length_in_s), FALSE)

\* C4: with guidance_scale <= 1.0 no step doubles the latent batch, the
\* conditioning tensors are not doubled, scheduler.step receives the
\* transformer's output unchanged, and the final latent is that of a run
\* with guidance forced off.
C4_GuidanceDisabled ==
    args.guidance_scale <= 1
        => /\ \A k \in 1..Len(transformer_calls) :
                /\ Len(transformer_calls[k].hidden_states) = EffectiveBatch
                /\ Len(transformer_calls[k].encoder_hidden_states) = EffectiveBatch
                /\ Len(transformer_calls[k].global_hidden_states) = EffectiveBatch
           /\ ~IsNone(locals.attention_mask)
                => Len(Val(locals.attention_mask)) = EffectiveBatch
           /\ \A k \in 1..Len(step_calls) :
                step_calls[k].model_output = transformer_calls[k].output
           /\ pc \in {"post_process", "done"}
                => Val(locals.latents) =
                       UnguidedRun(step_calls[1].sample, Val(locals.timesteps),
                                   UnguidedConditioning.cross_attention_hidden_states,
                                   UnguidedConditioning.global_hidden_states)

\* C4's case: a call with guidance_scale <= 1.0 and two waveforms per prompt
\* has run all its steps.
C4_Witness ==
    /\ args.guidance_scale <= 1
    /\ args.num_waveforms_per_prompt > 1
    /\ Len(transformer_calls) > 1
    /\ pc = "done"

\* C5: with guidance enabled the context handed to the transformer is the
\* unconditional context followed by the conditional one, and the residual
\* handed to scheduler.step is first + guidance_scale * (second - first) of
\* the two halves of the transformer's output.
C5_GuidanceOrdering ==
    (GuidanceEnabled /\ Len(transformer_calls) > 0)
        => LET half == EffectiveBatch
               positive == UnguidedConditioning.cross_attention_hidden_states
           IN  \A k \in 1..Len(transformer_calls) :
             LET c == transformer_calls[k]
             IN  /\ Len(c.encoder_hidden_states) = 2 * half
                 /\ Len(c.output) = 2 * half
                 /\ \A r \in 1..half :
                      /\ c.encoder_hidden_states[half + r] = positive[r]
                      /\ (IsNonePrompt(args.negative_prompt)
                          /\ IsNone(args.negative_cross_attention_hidden_states))
                           => c.encoder_hidden_states[r] = [p \in 1..Len(positive[r]) |-> 0]
                      /\ step_calls[k].model_output[r] =
                           c.output[r]
                           + args.guidance_scale * (c.output[half + r] - c.output[r])

\* C5's case: a guided call with two waveforms per prompt has stepped, on a
\* transformer output whose two halves differ.
C5_Witness ==
    /\ GuidanceEnabled
    /\ args.num_waveforms_per_prompt > 1
    /\ Len(step_calls) > 0
    /\ transformer_calls[1].output[1] # transformer_calls[1].output[EffectiveBatch + 1]

\* C6: with a scheduler of order 1 that yields num_inference_steps
\* timesteps, a completed call has invoked the transformer exactly
\* num_inference_steps times and, with callback_steps = 1, the callback
\* exactly as often, with the step indices 0, 1, ..., in this order; as long
\* as nothing has raised, the callback has been called once per iteration.
C6_LoopIterationCount ==
    (scheduler.order = 1 /\ scheduler.slack = 0 /\ pc # "error")
        => /\ pc \in {"post_process", "done"}
                => /\ Len(transformer_calls) = args.num_inference_steps
                   /\ Invocations("transformer") = args.num_inference_steps
           /\ (args.callback /\ args.callback_steps = Some(1))
                => /\ Len(callback_calls) = Len(transformer_calls)
                   /\ Invocations("callback") = Len(callback_calls)
                   /\ \A k \in 1..Len(callback_calls) : callback_calls[k].step_idx = k - 1

\* C6's case: a call with a callback, callback_steps = 1 and several steps
\* has completed under a first-order scheduler.
C6_Witness ==
    /\ scheduler.order = 1
    /\ scheduler.slack = 0
    /\ args.callback
    /\ args.callback_steps = Some(1)
    /\ args.num_inference_steps > 1
    /\ Len(callback_calls) = args.num_inference_steps
    /\ pc = "done"

\* The latent the last scheduler.step call returned
LastStepLatent == step_calls[Len(step_calls)].prev_sample

\* C7: with output_type "latent" the call returns the latent of the last
\* scheduler step unchanged and never invokes vae.decode.
C7_LatentPassthrough ==
    args.output_type = "latent"
        => /\ ~Invoked("vae.decode")
           /\ pc = "done" => Val(result).audios = LastStepLatent

\* C7's case: a call with output_type "latent" has returned.
C7_Witness ==
    /\ args.output_type = "latent"
    /\ Len(step_calls) > 0
    /\ pc = "done"

\* C8: for every output_type, return_dict = True yields the structured
\* result and return_dict = False the plain tuple.
C8_ReturnDictSelectsShape ==
    pc = "done"
        => Val(result).kind = IF args.return_dict THEN "AudioPipelineOutput" ELSE "tuple"

\* The samples of a row whose 0-based index lies in [lo, hi), for lo >= 0
Window(row, lo, hi) ==
    LET end == IF hi < Len(row) THEN hi ELSE Len(row)
    IN  [j \in 1..(IF end > lo THEN end - lo ELSE 0) |-> row[lo + j]]

\* seconds * sampling_rate / downsample_ratio, truncated, for seconds >= 0
FrameTruncated(seconds) == (seconds * sampling_rate) \div (hop_length * TicksPerSecond)

\* seconds * sampling_rate / downsample_ratio, rounded to the nearest integer
FrameRounded(seconds) == RoundDiv(seconds * sampling_rate, hop_length * TicksPerSecond)

\* A waveform has been returned.
WaveformReturned == pc = "done" /\ args.output_type # "latent"

SeedEncoded == ~IsNone(args.initial_audio_waveforms) /\ Invoked("vae.encode")

\* C10: with initial_audio_waveforms, prepare_latents returns a latent of
\* batch_size * num_waveforms_per_prompt rows: the encoded seed, tiled
\* num_waveforms_per_prompt times, plus the noise scaled by init_noise_sigma.
C10_SeedComposition ==
    SeedEncoded
        => LET n == args.num_waveforms_per_prompt
               seed == VaeEncode(GivenWaveforms(Val(locals.batch_size)))
               noise == IF IsNone(args.latents) THEN RandnTensor(EffectiveBatch)
                        ELSE GivenLatents(EffectiveBatch)
           IN  /\ pc # "error"
               /\ pc = "prepare_rotary"
                    => Val(locals.latents) =
                         [r \in 1..EffectiveBatch |->
                            seed[((r - 1) \div n) + 1] + noise[r] * init_noise_sigma]

\* callback_steps is a positive integer.
CallbackStepsValid ==
    /\ ~IsNone(args.callback_steps)
    /\ args.callback_steps_type = "int"
    /\ Val(args.callback_steps) > 0

\* check_inputs has returned: batch_size has been resolved.
Validated == ~IsNone(locals.batch_size)

\* encode_prompt_and_seconds has returned its three tensors.
ConditioningBuilt ==
    /\ ~IsNone(locals.cross_attention_hidden_states)
    /\ ~IsNone(locals.attention_mask)
    /\ ~IsNone(locals.global_hidden_states)

\* A call with a pre-computed context, no prompt, nothing negative, a mask
\* of the context's shape or none, and the default window.
PrecomputedContextCall ==
    /\ IsNonePrompt(args.prompt)
    /\ ~IsNone(args.cross_attention_hidden_states)
    /\ IsNonePrompt(args.negative_prompt)
    /\ IsNone(args.negative_cross_attention_hidden_states)
    /\ \/ IsNone(args.attention_mask)
       \/ Shape2(Val(args.attention_mask)) = Shape2(Val(args.cross_attention_hidden_states))
    /\ CallbackStepsValid
    /\ IsNone(args.audio_length_in_s)
    /\ args.audio_start_in_s = 0

\* C11: a call with pre-computed cross_attention_hidden_states and no prompt
\* passes validation, takes batch_size from the tensor's leading dimension
\* and leaves encode_prompt_and_seconds with a context, a mask and global
\* states, not with an error.
C11_PrecomputedContextEncodes ==
    PrecomputedContextCall
        => /\ pc # "error"
           /\ Validated
                => Val(locals.batch_size) = Len(Val(args.cross_attention_hidden_states))
           /\ pc \notin {"convert_length", "check_inputs", "encode_prompt"}
                => ConditioningBuilt

\* A call with a text prompt, a negative prompt of the same container type
\* and length or none, and nothing pre-computed.
TextPromptCall ==
    /\ ~IsNonePrompt(args.prompt)
    /\ IsNone(args.cross_attention_hidden_states)
    /\ IsNone(args.negative_cross_attention_hidden_states)
    /\ IsNone(args.negative_attention_mask)
    /\ ~NegativePromptMismatch

\* C12: for a text prompt of any batch size, any num_waveforms_per_prompt,
\* guided or not, with or without negative prompt, the conditioning is built
\* and its three tensors have batch_size * num_waveforms_per_prompt rows,
\* twice as many when guided, the mask as long as the context:
\* model_max_length + 2 positions.
C12_ConditioningShapes ==
    (TextPromptCall /\ Validated)
        => /\ pc = "encode_prompt" \/ ConditioningBuilt
           /\ ConditioningBuilt
                => LET rows == EffectiveBatch * (IF GuidanceEnabled THEN 2 ELSE 1)
                       cahs == Val(locals.cross_attention_hidden_states)
                       mask == Val(locals.attention_mask)
                   IN  /\ Len(cahs) = rows
                       /\ Len(mask) = rows
                       /\ Len(Val(locals.global_hidden_states)) = rows
                       /\ Shape2(mask)[2] = Shape2(cahs)[2]
                       /\ Shape2(mask)[2] = model_max_length + 2

\* The pre-computed negative context differs in shape from the context.
NegativeShapeMismatch ==
    /\ ~IsNone(args.cross_attention_hidden_states)
    /\ ~IsNone(args.negative_cross_attention_hidden_states)
    /\ Shape2(Val(args.negative_cross_attention_hidden_states))
         # Shape2(Val(args.cross_attention_hidden_states))

\* The attention mask differs in shape from the context's (batch, sequence).
MaskShapeMismatch ==
    /\ ~IsNone(args.cross_attention_hidden_states)
    /\ ~IsNone(args.attention_mask)
    /\ Shape2(Val(args.attention_mask)) # Shape2(Val(args.cross_attention_hidden_states))

\* The call has not gone past validation, and if it has ended, it has ended
\* with a usage error, no collaborator having been invoked.
RejectedByValidation ==
    /\ calls = <<>>
    /\ pc \in {"convert_length", "check_inputs", "error"}
    /\ pc = "error" => error = "ValueError"

\* C13: with pre-computed cross_attention_hidden_states, a negative context
\* of another shape, and a mask of another (batch, sequence) shape, are each
\* rejected by validation with a usage error before any collaborator is
\* invoked.
C13_PrecomputedShapesValidated ==
    (NegativeShapeMismatch \/ MaskShapeMismatch) => RejectedByValidation

\* Both, or neither, of prompt and cross_attention_hidden_states are given.
PromptSourceInvalid ==
    IsNonePrompt(args.prompt) <=> IsNone(args.cross_attention_hidden_states)

\* Both negative_prompt and negative_cross_attention_hidden_states are given.
NegativeSourceInvalid ==
    /\ ~IsNonePrompt(args.negative_prompt)
    /\ ~IsNone(args.negative_cross_attention_hidden_states)

\* C14: a call with both or neither of prompt and
\* cross_attention_hidden_states, with both negative_prompt and
\* negative_cross_attention_hidden_states, or with a callback_steps that is
\* not a positive integer, is rejected by validation with a usage error
\* before any collaborator is invoked.
C14_SourcesValidated ==
    (PromptSourceInvalid \/ NegativeSourceInvalid \/ ~CallbackStepsValid)
        => RejectedByValidation

\* C14's case: check_inputs has rejected a call whose only fault is to give
\* both a negative prompt and a negative context.
C14_Witness ==
    /\ NegativeSourceInvalid
    /\ ~PromptSourceInvalid
    /\ CallbackStepsValid
    /\ ~IsNone(locals.waveform_end)
    /\ pc = "error"
    /\ error = "ValueError"

\* The loop has run to its end.
LoopCompleted == pc \in {"post_process", "done"}

\* The user-visible steps 0 .. n - 1 that are multiples of callback_steps
EveryNthStep(n, callback_steps) ==
    [j \in 1..((n - 1) \div callback_steps + 1) |-> (j - 1) * callback_steps]

\* C15: with a callback, whatever the scheduler's order, a completed call
\* whose scheduler yields num_inference_steps * order timesteps has called
\* the callback at every callback_steps-th user-visible step, with the
\* step's index.
C15_CallbackEveryNthStep ==
    (args.callback /\ scheduler.slack = 0 /\ LoopCompleted)
        => [k \in 1..Len(callback_calls) |-> callback_calls[k].step_idx]
             = EveryNthStep(args.num_inference_steps, Val(args.callback_steps))

\* The latent prepare_latents returned
InitialLatent ==
    PrepareLatentsResult(Val(locals.batch_size) * args.num_waveforms_per_prompt,
                         args.generator, args.latents, args.initial_audio_waveforms,
                         args.num_waveforms_per_prompt).latents

\* The transformer and scheduler.step invocations, in the order they were made
ModelInvocations == SelectSeq(calls, LAMBDA c : c \in {"transformer", "scheduler.step"})

\* C16: the loop has visited the first locals.i timesteps of the scheduler's
\* list, each once and in order, with one transformer call followed by one
\* scheduler.step call per timestep; every iteration reads the latent the
\* step before returned, the first one the initialized latent; a completed
\* loop has visited the whole list.
C16_LoopSequential ==
    /\ Len(transformer_calls) = locals.i
    /\ Len(step_calls) = locals.i
    /\ \A k \in 1..locals.i :
         LET t == Val(locals.timesteps)[k]
             read == IF k = 1 THEN InitialLatent ELSE step_calls[k - 1].prev_sample
         IN  /\ transformer_calls[k].timestep = t
             /\ step_calls[k].timestep = t
             /\ step_calls[k].sample = read
             /\ transformer_calls[k].hidden_states =
                  ScaleModelInput(
                      LatentModelInput(read, Val(locals.do_classifier_free_guidance)), t)
    /\ pc \in {"denoise", "post_process", "done"}
         => /\ ModelInvocations =
                 [j \in 1..(2 * locals.i) |->
                    IF j % 2 = 1 THEN "transformer" ELSE "scheduler.step"]
            /\ Val(locals.latents) =
                 IF locals.i = 0 THEN InitialLatent ELSE LastStepLatent
    /\ LoopCompleted => locals.i = Len(Val(locals.timesteps))

\* C16's case: a loop over several timesteps has completed.
C16_Witness ==
    /\ pc = "done"
    /\ Len(step_calls) > 2
    /\ step_calls[1].prev_sample # step_calls[2].prev_sample

\* The local variables an iteration of the loop may assign
LoopAssigned == {"latents", "i", "progress"}

\* C17: a step of the loop leaves the cross-attention context, the global
\* states and the rotary embedding (of length sample_size plus the length
\* of the global states) as they were built, hands exactly these to the
\* transformer, and changes no local variable but the latent and the loop's
\* counters; the latent changes only to what scheduler.step returned.
C17_ConditioningFrozen ==
    [][pc = "denoise"
         => /\ \A f \in DOMAIN locals \ LoopAssigned : locals'[f] = locals[f]
            /\ locals.rotary_length
                 = Some(sample_size + Shape2(Val(locals.global_hidden_states))[2])
            /\ \A k \in 1..Len(transformer_calls') :
                 /\ transformer_calls'[k].encoder_hidden_states
                      = Val(locals.cross_attention_hidden_states)
                 /\ transformer_calls'[k].global_hidden_states
                      = Val(locals.global_hidden_states)
                 /\ Some(transformer_calls'[k].rotary_length) = locals.rotary_length
            /\ locals'.latents # locals.latents
                 => /\ Len(step_calls') = Len(step_calls) + 1
                    /\ locals'.latents = Some(step_calls'[Len(step_calls')].prev_sample)
      ]_vars

\* C17's case: a guided loop of several steps has completed, the latent
\* having changed.
C17_Witness ==
    /\ pc = "done"
    /\ GuidanceEnabled
    /\ Len(transformer_calls) > 1
    /\ step_calls[1].prev_sample # step_calls[1].sample

\* The transformer, the scheduler or the callback has raised in the loop.
LoopFault == error \in {"TransformerError", "SchedulerError", "CallbackError"}

\* The last collaborator invoked
LastCall == calls[Len(calls)]

\* C18: when the transformer, the scheduler or the callback raises in
\* iteration i the call ends there: the collaborator that raised is the last
\* one invoked, the transformer and scheduler.step have been invoked for no
\* later iteration, vae.decode has not been invoked and nothing is returned.
C18_LoopFailureAborts ==
    LoopFault
        => /\ pc = "error"
           /\ result = None
           /\ ~Invoked("vae.decode")
           /\ LoopError(LastCall) = error
           /\ Invocations("transformer") =
                locals.i + (IF LastCall = "scheduler.scale_model_input" THEN 0 ELSE 1)
           /\ Invocations("scheduler.step") =
                locals.i + (IF LastCall \in {"scheduler.step", "callback"} THEN 1 ELSE 0)

\* C18's case: the callback has raised in an iteration after the first.
C18_Witness ==
    /\ error = "CallbackError"
    /\ locals.i > 0
    /\ pc = "error"

\* The negative prompt has been handed to the projection model.
NegativeProjected == Invocations("projection_model") = 2

\* The conditioning of the prompt as it stands when the negative prompt is
\* encoded
GuidedPositive ==
    TileAndDouble(EncodePositive(args, Val(locals.audio_length_in_s)),
                  args.num_waveforms_per_prompt, TRUE)

\* C19: in the negative-prompt path the projection model is given the
\* negative prompt's own tokenizer mask, encode_prompt_and_seconds returns,
\* and the negative text embeddings it returns are zero exactly where that
\* mask marks padding.
C19_NegativeMaskProjected ==
    NegativeProjected
        => LET uncond_mask == TokenizerMask(args.negative_prompt.texts)
               n == args.num_waveforms_per_prompt
           IN  /\ NegativeProjectionMask(GuidedPositive.attention_mask, uncond_mask)
                    = uncond_mask
               /\ pc = "error" => ConditioningBuilt
               /\ ConditioningBuilt
                    => \A r \in 1..EffectiveBatch : \A p \in 1..model_max_length :
                         (Val(locals.cross_attention_hidden_states)[r][p] = 0)
                           <=> (uncond_mask[((r - 1) \div n) + 1][p] = 0)

\* C20: once validation has passed, the window's frames satisfy
\* 0 <= waveform_start <= waveform_end <= sample_size, and a returned
\* waveform has (waveform_end - waveform_start) * hop_length samples.
C20_WindowInsideDecode ==
    Validated
        => LET waveform_start == Val(locals.waveform_start)
               waveform_end == Val(locals.waveform_end)
           IN  /\ 0 <= waveform_start
               /\ waveform_start <= waveform_end
               /\ waveform_end <= sample_size
               /\ WaveformReturned
                    => \A r \in 1..Len(Val(result).audios) :
                         Len(Val(result).audios[r])
                           = (waveform_end - waveform_start) * hop_length

\* C21: whatever the scheduler's order and the length of its timestep list,
\* the progress counter never exceeds num_inference_steps, the progress
\* bar's total, a completed loop has advanced it exactly num_inference_steps
\* times, and every step index handed to the callback lies in
\* 0 .. num_inference_steps - 1.
C21_ProgressBounded ==
    /\ locals.progress <= args.num_inference_steps
    /\ LoopCompleted => locals.progress = args.num_inference_steps
    /\ \A k \in 1..Len(callback_calls) :
         callback_calls[k].step_idx \in 0..(args.num_inference_steps - 1)

====
